---- MODULE Spec2Model ----
(***************************************************************************)
(* Productivity Coach: the personalization profile engine.                *)
(*                                                                         *)
(*   ai_config.py   feature catalog and configuration resolver            *)
(*   onboarding.py  profile generator, default profile, validation         *)
(*   database.py    SQLite store: profiles, daily plans, weekly reviews    *)
(*   app.py         the Streamlit session that drives the three            *)
(*                                                                         *)
(* Python dicts are functions from their keys; strings built by            *)
(* concatenation are sequences of text pieces; an Optional value is <<>>   *)
(* (None) or <<v>>; timestamps (datetime.now().isoformat(), compared as    *)
(* text by SQLite) are readings of the wall clock, numbers compared in the *)
(* same order; temperatures are in tenths.                                 *)
(***************************************************************************)
EXTENDS Integers, Sequences, FiniteSets, TLC

VARIABLES
    profiles,      \* table user_profiles, rows in rowid order
    profile_seq,   \* sqlite_sequence entry of user_profiles (AUTOINCREMENT)
    plans,         \* table daily_plans
    plan_seq,
    reviews,       \* table weekly_reviews
    review_seq,
    metadata,      \* table app_metadata: key -> [value, updated_at]
    ret,           \* the last operation: its name, arguments and result
    session,       \* st.session_state of the one browser session
    env,           \* process environment: is GROQ_API_KEY set
    inp,           \* arguments of the pure function under study
    conn,          \* per writer: position inside save_user_profile
    lock           \* holder of the database write lock, 0 when free

vars == <<profiles, profile_seq, plans, plan_seq, reviews, review_seq,
          metadata, ret, session, env, inp, conn, lock>>

storeVars == <<profiles, profile_seq, plans, plan_seq, reviews, review_seq, metadata>>

----------------------------------------------------------------------------
(* Bounds *)

\* rows in the whole database (all three tables together)
MaxRows == 2

\* the wall clock reads 0..MaxClock; it can repeat a reading and step back
MaxClock == 1

Clock == 0..MaxClock

----------------------------------------------------------------------------
(* Python values *)

None == <<>>
Some(v) == <<v>>

\* d.setdefault(k, v): a key that is there keeps its value
setdefault(d, k, v) == [x \in (DOMAIN d) \cup {k} |-> IF x \in DOMAIN d THEN d[x] ELSE v]

\* d[k] = v
Put(d, k, v) == [x \in (DOMAIN d) \cup {k} |-> IF x = k THEN v ELSE d[x]]

\* d.get(k, default)
Get(d, k, default) == IF k \in DOMAIN d THEN d[k] ELSE default

\* the slice without its bound
take_all(seq, n) == seq

\* seq[:n]
Take(seq, n) == SubSeq(seq, 1, IF Len(seq) < n THEN Len(seq) ELSE n)

\* json.dumps of a dict with string keys: the text lists its members
json_dumps(d) == {<<k, d[k]>> : k \in DOMAIN d}

\* json.loads of such a text: the dict of its members
json_loads(t) == [k \in {m[1] : m \in t} |-> (CHOOSE m \in t : m[1] = k)[2]]

\* a value that is not a dict (a str), where a dict is expected
NotADict(text) == [py_str |-> text]

IsDict(v) == "py_str" \notin DOMAIN v

\* how a call ends
Return(v) == [exc |-> "none", value |-> <<v>>]
Raise(e) == [exc |-> e, value |-> <<>>]

----------------------------------------------------------------------------
(* ai_config.py *)

MODELS ==
    [daily_planning |-> "llama-3.3-70b-versatile",
     weekly_review  |-> "llama-3.1-70b-versatile",
     quick_task     |-> "llama-3.1-8b-instant",
     motivational   |-> "llama-3.1-8b-instant",
     onboarding     |-> "llama-3.3-70b-versatile"]

\* tenths
TEMPERATURES ==
    [daily_planning |-> 4, weekly_review |-> 8, quick_task |-> 5,
     motivational |-> 11, onboarding |-> 7]

MAX_TOKENS ==
    [daily_planning |-> 500, weekly_review |-> 600, quick_task |-> 150,
     motivational |-> 200, onboarding |-> 800]

DEFAULT_SYSTEM_MESSAGES ==
    [daily_planning |-> <<"You are an Islamic productivity coach specializing in time management ...">>,
     weekly_review  |-> <<"You are a reflective productivity coach analyzing weekly progress ...">>,
     quick_task     |-> <<"You are a helpful productivity assistant for quick questions ...">>,
     motivational   |-> <<"You are an Islamic motivational speaker focused on productivity ...">>]

\* the Arabic name is written here in Latin letters
LANGUAGES ==
    [en |-> [name |-> "English", code |-> "en", direction |-> "ltr",
             ai_instruction |-> "Respond in English."],
     de |-> [name |-> "Deutsch", code |-> "de", direction |-> "ltr",
             ai_instruction |-> "Antworte auf Deutsch."],
     ar |-> [name |-> "al-Arabiyya", code |-> "ar", direction |-> "rtl",
             ai_instruction |-> "Respond in Arabic (al-Arabiyya). Use proper Arabic script."],
     fr |-> [name |-> "Francais", code |-> "fr", direction |-> "ltr",
             ai_instruction |-> "Repondez en francais."]]

get_model(feature) == Get(MODELS, feature, MODELS["quick_task"])

get_temperature(feature) == Get(TEMPERATURES, feature, 7)

get_max_tokens(feature) == Get(MAX_TOKENS, feature, 300)

\* the quick_task message for every feature
get_system_message_generic(feature) == DEFAULT_SYSTEM_MESSAGES["quick_task"]

get_system_message(feature) ==
    Get(DEFAULT_SYSTEM_MESSAGES, feature, DEFAULT_SYSTEM_MESSAGES["quick_task"])

get_language_instruction(language_code) ==
    Get(LANGUAGES, language_code, LANGUAGES["en"]).ai_instruction

\* the mapping without its last entry
get_language_code_no_fr(language_name) ==
    LET mapping == ("English" :> "en") @@ ("Deutsch" :> "de")
                   @@ ("al-Arabiyya (Arabic)" :> "ar")
    IN  Get(mapping, language_name, "en")

get_language_code(language_name) ==
    LET mapping == ("English" :> "en") @@ ("Deutsch" :> "de")
                   @@ ("al-Arabiyya (Arabic)" :> "ar") @@ ("Francais" :> "fr")
    IN  Get(mapping, language_name, "en")

\* the key without its prefix
SystemMessageKey_bare(feature) == feature

\* "system_message_" + feature, for the feature names the model uses
SystemMessageKey(feature) ==
    LET key == ("daily_planning" :> "system_message_daily_planning")
               @@ ("weekly_review" :> "system_message_weekly_review")
               @@ ("quick_task" :> "system_message_quick_task")
               @@ ("motivational" :> "system_message_motivational")
               @@ ("onboarding" :> "system_message_onboarding")
               @@ ("unknown_feature_xyz" :> "system_message_unknown_feature_xyz")
               @@ ("" :> "system_message_")
    IN  key[feature]

\* truth value of an Optional[Dict]: None and {} are false
Truthy(user_profile) == user_profile # None /\ DOMAIN user_profile[1] # {}

\* config = {"model": ..., "temperature": ..., "max_tokens": ...}
feature_config(feature) ==
    [model |-> get_model(feature),
     temperature |-> get_temperature(feature),
     max_tokens |-> get_max_tokens(feature)]

\* the rest of get_ai_config: the system message, personalised when the
\* profile has one, and the language directive
with_system_message(config, feature, user_profile) ==
    LET profile == user_profile[1]
        system_message ==
            IF Truthy(user_profile) /\ SystemMessageKey(feature) \in DOMAIN profile
            THEN profile[SystemMessageKey(feature)]
            ELSE get_system_message(feature)
    IN  IF Truthy(user_profile) /\ "onboarding_data" \in DOMAIN profile
        THEN IF ~IsDict(profile["onboarding_data"])
             THEN Raise("AttributeError")
             ELSE LET language == Get(profile["onboarding_data"], "language", "English")
                      language_code == get_language_code(language)
                      language_instruction == get_language_instruction(language_code)
                  IN  Return(Put(config, "system_message",
                                 system_message \o <<"\n\nIMPORTANT: ", language_instruction>>))
        ELSE Return(Put(config, "system_message", system_message))

\* a token budget that grows with a profile
get_ai_config_tokens_by_profile(feature, user_profile) ==
    with_system_message(
        [feature_config(feature) EXCEPT
            !.max_tokens = IF Truthy(user_profile) THEN 2 * @ ELSE @],
        feature, user_profile)

get_ai_config(feature, user_profile) ==
    with_system_message(feature_config(feature), feature, user_profile)

\* the user message ahead of the earlier turns
create_messages_input_first(feature, user_input, user_profile, conversation_history) ==
    LET config == get_ai_config(feature, user_profile)
        history == IF conversation_history # None THEN conversation_history[1] ELSE <<>>
    IN  IF config.exc # "none"
        THEN [exc |-> config.exc, value |-> None,
              conversation_history |-> conversation_history]
        ELSE [exc |-> "none",
              value |-> Some(<<[role |-> "system", content |-> config.value[1].system_message],
                               [role |-> "user", content |-> user_input]>> \o history),
              conversation_history |-> conversation_history]

\* the list create_messages returns, and the caller's list as the call leaves
\* it: extend copies its entries into the new list
create_messages(feature, user_input, user_profile, conversation_history) ==
    LET config == get_ai_config(feature, user_profile)
        messages == <<[role |-> "system", content |-> config.value[1].system_message]>>
        extended == IF conversation_history # None /\ Len(conversation_history[1]) > 0
                    THEN messages \o conversation_history[1]
                    ELSE messages
    IN  IF config.exc # "none"
        THEN [exc |-> config.exc, value |-> None,
              conversation_history |-> conversation_history]
        ELSE [exc |-> "none",
              value |-> Some(Append(extended, [role |-> "user", content |-> user_input])),
              conversation_history |-> conversation_history]

----------------------------------------------------------------------------
(* onboarding.py *)

\* a list, with the type of its elements; a str where a list is expected
PyList(elems, items) == [type |-> "list", elems |-> elems, val |-> items]
PyStr(text) == [type |-> "str", elems |-> "char", val |-> <<text>>]

isinstance_list(v) == v.type = "list"

\* ', '.join(items)
RECURSIVE join(_)
join(items) ==
    IF Len(items) = 0 THEN <<>>
    ELSE IF Len(items) = 1 THEN <<items[1]>>
    ELSE <<items[1], ", ">> \o join(Tail(items))

\* str.join raises TypeError on an element that is not a str
join_raises(v) == isinstance_list(v) /\ v.elems # "str" /\ Len(v.val) > 0

\* ', '.join(goals) if isinstance(goals, list) else goals
goals_text(goals) == IF isinstance_list(goals) THEN join(goals.val) ELSE goals.val

\* os.getenv("GROQ_API_KEY"); raise ValueError when it is not set
get_groq_client_raises(environment) == ~environment.GROQ_API_KEY

\* str.strip() on a text of pieces: whitespace pieces at both ends go
RECURSIVE lstrip(_)
lstrip(content) ==
    IF Len(content) > 0 /\ content[1] = " " THEN lstrip(Tail(content)) ELSE content

RECURSIVE rstrip(_)
rstrip(content) ==
    IF Len(content) > 0 /\ content[Len(content)] = " "
    THEN rstrip(SubSeq(content, 1, Len(content) - 1)) ELSE content

strip(content) == rstrip(lstrip(content))

startswith(content, piece) == Len(content) > 0 /\ content[1] = piece

\* content.split(fence)[1], for a content that starts with the fence
\* (three backquotes, the piece "<fence>"):
\* what stands between the first fence and the second (or the end)
RECURSIVE upto_fence(_)
upto_fence(content) ==
    IF Len(content) = 0 \/ content[1] = "<fence>" THEN <<>>
    ELSE <<content[1]>> \o upto_fence(Tail(content))

\* index 0 in place of 1: what stands before the first fence
split_fence_0(content) == <<>>

split_fence_1(content) == upto_fence(Tail(content))

\* the list without its last entry
required_fields_of_model ==
    <<"system_message_daily_planning", "system_message_weekly_review",
      "coaching_tone", "key_focus_areas", "time_block_size">>

required_fields ==
    <<"system_message_daily_planning", "system_message_weekly_review",
      "coaching_tone", "key_focus_areas", "time_block_size", "onboarding_data">>

\* the object the prompt asks the model for
FullJson ==
    [system_message_daily_planning |-> <<"You coach a student towards ...">>,
     system_message_weekly_review  |-> <<"You review a student's week ...">>,
     coaching_tone    |-> "gentle, structured",
     key_focus_areas  |-> PyList("str", <<"Career development", "Family time">>),
     time_block_size  |-> 45,
     islamic_emphasis |-> "high"]

Without(d, k) == [x \in (DOMAIN d) \ {k} |-> d[x]]

\* JSON texts the model can answer with, and what json.loads makes of each;
\* any other piece is not JSON
JsonTexts ==
    [full        |-> [dict |-> TRUE, val |-> FullJson],
     no_daily    |-> [dict |-> TRUE, val |-> Without(FullJson, "system_message_daily_planning")],
     no_weekly   |-> [dict |-> TRUE, val |-> Without(FullJson, "system_message_weekly_review")],
     no_tone     |-> [dict |-> TRUE, val |-> Without(FullJson, "coaching_tone")],
     no_focus    |-> [dict |-> TRUE, val |-> Without(FullJson, "key_focus_areas")],
     no_block    |-> [dict |-> TRUE, val |-> Without(FullJson, "time_block_size")],
     no_emphasis |-> [dict |-> TRUE, val |-> Without(FullJson, "islamic_emphasis")],
     empty       |-> [dict |-> TRUE, val |-> Without([x |-> 0], "x")],
     extra       |-> [dict |-> TRUE,
                      val |-> [k \in (DOMAIN FullJson)
                                     \cup {"onboarding_data", "language_code", "created_at", "is_default"} |->
                               CASE k = "onboarding_data" -> [language |-> "English"]
                                 [] k = "language_code" -> "xx"
                                 [] k = "created_at" -> MaxClock + 1
                                 [] k = "is_default" -> TRUE
                                 [] OTHER -> FullJson[k]]],
     array       |-> [dict |-> FALSE, val |-> Without([x |-> 0], "x")],
     null        |-> [dict |-> FALSE, val |-> Without([x |-> 0], "x")]]

\* json.loads(content): whitespace around the one JSON text is skipped
json_loads_raises(content) ==
    ~(Len(strip(content)) = 1 /\ strip(content)[1] \in DOMAIN JsonTexts)

json_loads_text(content) == JsonTexts[strip(content)[1]]

get_default_profile_raises(onboarding_data) ==
    join_raises(Get(onboarding_data, "goals", PyList("str", <<>>)))

get_default_profile(onboarding_data, now) ==
    LET language == Get(onboarding_data, "language", "English")
        language_code == get_language_code(language)
        role == Get(onboarding_data, "role", "individual")
        goals == Get(onboarding_data, "goals", PyList("str", <<>>))
    IN  [system_message_daily_planning |->
             <<"You are a productivity coach for a ", role, ".\n\nFocus on these goals: ">>
             \o goals_text(goals) \o <<".\n\nProvide: ...">>,
         system_message_weekly_review |-> <<"You are a reflective productivity coach ...">>,
         coaching_tone |-> "encouraging, practical",
         key_focus_areas |->
             IF isinstance_list(goals)
             THEN PyList(goals.elems, Take(goals.val, 3))
             ELSE PyList("str", <<"productivity", "balance", "growth">>),
         time_block_size |-> 30,
         islamic_emphasis |-> "medium",
         onboarding_data |-> onboarding_data,
         created_at |-> now,
         language_code |-> language_code,
         is_default |-> TRUE]

\* a validation that accepts every profile
validate_nothing(profile) == TRUE

validate_profile(profile) ==
    \A i \in DOMAIN required_fields : required_fields[i] \in DOMAIN profile

\* The try block of generate_user_profile: what the one completion call gave
\* (an exception, no content, or a text), and the profile made of it.
generate_from_completion(onboarding_data, language_code, completion, now) ==
    LET stripped == strip(completion.content)
        content == IF startswith(stripped, "<fence>")
                   THEN LET inner == split_fence_1(stripped)
                        IN  strip(IF startswith(inner, "json") THEN Tail(inner) ELSE inner)
                   ELSE stripped
        fallback == IF get_default_profile_raises(onboarding_data)
                    THEN Raise("TypeError")
                    ELSE Return(get_default_profile(onboarding_data, now))
    IN  IF completion.kind = "raises" THEN fallback             \* except Exception
        ELSE IF completion.kind = "no_content" THEN fallback    \* None.strip(): except Exception
        ELSE IF json_loads_raises(content) THEN fallback        \* except json.JSONDecodeError
        ELSE IF ~json_loads_text(content).dict THEN fallback    \* item assignment: except Exception
        ELSE Return(Put(Put(Put(json_loads_text(content).val,
                                "onboarding_data", onboarding_data),
                            "created_at", now),
                        "language_code", language_code))

\* a second request when the first did not give a profile of the model's
generate_user_profile_retrying(onboarding_data, environment, completion, now) ==
    LET language == Get(onboarding_data, "language", "English")
        goals == Get(onboarding_data, "goals", PyList("str", <<>>))
        language_code == get_language_code(language)
        first == generate_from_completion(onboarding_data, language_code, completion, now)
    IN  IF get_groq_client_raises(environment)
        THEN Put(Raise("ValueError"), "calls", 0)
        ELSE IF join_raises(goals)
        THEN Put(Raise("TypeError"), "calls", 0)
        ELSE Put(first, "calls",
                 IF first.exc = "none" /\ "is_default" \in DOMAIN first.value[1]
                 THEN 2 ELSE 1)

\* generate_user_profile: [exc, value] as Return/Raise give them, and calls,
\* the number of completion requests made
generate_user_profile(onboarding_data, environment, completion, now) ==
    LET language == Get(onboarding_data, "language", "English")
        goals == Get(onboarding_data, "goals", PyList("str", <<>>))
        language_code == get_language_code(language)
    IN  IF get_groq_client_raises(environment)
        THEN Put(Raise("ValueError"), "calls", 0)
        ELSE IF join_raises(goals)
        THEN Put(Raise("TypeError"), "calls", 0)
        ELSE Put(generate_from_completion(onboarding_data, language_code, completion, now),
                 "calls", 1)

----------------------------------------------------------------------------
(* database.py *)

DB_VERSION == 1

\* a reset that empties the profile table only
EmptyProfilesOnly(now) ==
    /\ profiles' = <<>>
    /\ profile_seq' = 0
    /\ metadata' = [db_version |-> [value |-> DB_VERSION, updated_at |-> now]]
    /\ UNCHANGED <<plans, plan_seq, reviews, review_seq>>

\* the schema init_database creates, and its db_version row
EmptyTables(now) ==
    /\ profiles' = <<>>
    /\ profile_seq' = 0
    /\ plans' = <<>>
    /\ plan_seq' = 0
    /\ reviews' = <<>>
    /\ review_seq' = 0
    /\ metadata' = [db_version |-> [value |-> DB_VERSION, updated_at |-> now]]

Rows == Len(profiles) + Len(plans) + Len(reviews)

\* the UPDATE left out
deactivate_none(rows) == rows

\* a DELETE in place of the UPDATE
delete_active(rows) == SelectSeq(rows, LAMBDA r : r.is_active # 1)

\* the UPDATE without its WHERE matching the newest row
deactivate_all_but_last(rows) ==
    [i \in DOMAIN rows |->
        IF rows[i].is_active = 1 /\ i < Len(rows)
        THEN [rows[i] EXCEPT !.is_active = 0] ELSE rows[i]]

\* UPDATE user_profiles SET is_active = 0 WHERE is_active = 1
deactivate_active(rows) ==
    [i \in DOMAIN rows |->
        IF rows[i].is_active = 1 THEN [rows[i] EXCEPT !.is_active = 0] ELSE rows[i]]

\* INSERT INTO user_profiles (profile_data, created_at, updated_at, is_active)
\* VALUES (?, ?, ?, 1), the id being the next of the AUTOINCREMENT sequence
insert_profile(rows, seq, profile_data, now) ==
    Append(rows, [id |-> seq + 1, profile_data |-> json_dumps(profile_data),
                  created_at |-> now, updated_at |-> now, is_active |-> 1])

\* the dict of a row without its db_ keys
profile_of_row_without_id(row) == json_loads(row.profile_data)

\* the dict made of a user_profiles row
profile_of_row(row) ==
    Put(Put(Put(json_loads(row.profile_data), "db_id", row.id),
            "db_created_at", row.created_at),
        "db_updated_at", row.updated_at)

\* rows a SELECT ... ORDER BY created_at DESC LIMIT 1 can give: those of the
\* greatest created_at; SQLite leaves the order of equal keys open
newest_created(rows, matching) ==
    {i \in matching : \A j \in matching : rows[j].created_at <= rows[i].created_at}

init_database(now) ==
    /\ metadata' = Put(metadata, "db_version",
                       [value |-> DB_VERSION, updated_at |-> now])
    /\ ret' = [op |-> "init_database"]
    /\ UNCHANGED <<profiles, profile_seq, plans, plan_seq, reviews, review_seq>>

save_user_profile(profile_data, now) ==
    /\ Rows < MaxRows
    /\ profiles' = insert_profile(deactivate_active(profiles), profile_seq,
                                  profile_data, now)
    /\ profile_seq' = profile_seq + 1
    /\ ret' = [op |-> "save_user_profile", profile_data |-> profile_data,
               value |-> profile_seq + 1]
    /\ UNCHANGED <<plans, plan_seq, reviews, review_seq, metadata>>

\* what get_active_user_profile can return on these rows
active_user_profile(rows) ==
    LET active == {i \in DOMAIN rows : rows[i].is_active = 1}
    IN  IF active = {} THEN {None}
        ELSE {Some(profile_of_row(rows[i])) : i \in newest_created(rows, active)}

get_active_user_profile ==
    /\ \E existing \in active_user_profile(profiles) :
           ret' = [op |-> "get_active_user_profile", value |-> existing]
    /\ UNCHANGED storeVars

update_user_profile(user_id, profile_data, now) ==
    /\ profiles' = [i \in DOMAIN profiles |->
                       IF profiles[i].id = user_id
                       THEN [profiles[i] EXCEPT !.profile_data = json_dumps(profile_data),
                                                !.updated_at = now]
                       ELSE profiles[i]]
    /\ ret' = [op |-> "update_user_profile", user_id |-> user_id,
               value |-> (\E i \in DOMAIN profiles : profiles[i].id = user_id)]
    /\ UNCHANGED <<profile_seq, plans, plan_seq, reviews, review_seq, metadata>>

\* INSERT INTO daily_plans (user_id, date, plan_content, available_hours,
\* created_at) VALUES (?, ?, ?, ?, ?)
insert_plan(rows, seq, user_id, date, plan_content, available_hours, now) ==
    Append(rows, [id |-> seq + 1, user_id |-> user_id, date |-> date,
                  plan_content |-> plan_content,
                  available_hours |-> available_hours,
                  created_at |-> now])

\* INSERT INTO weekly_reviews (user_id, week_start, week_end, review_content,
\* created_at) VALUES (?, ?, ?, ?, ?)
insert_review(rows, seq, user_id, week_start, week_end, review_content, now) ==
    Append(rows, [id |-> seq + 1, user_id |-> user_id,
                  week_start |-> week_start, week_end |-> week_end,
                  review_content |-> review_content,
                  created_at |-> now])

\* INSERT OR REPLACE on (user_id, date) in place of the INSERT
save_daily_plan_replacing(user_id, date, plan_content, available_hours, now) ==
    /\ Rows < MaxRows
    /\ plans' = Append(SelectSeq(plans, LAMBDA r : ~(r.user_id = user_id /\ r.date = date)),
                       [id |-> plan_seq + 1, user_id |-> user_id, date |-> date,
                        plan_content |-> plan_content,
                        available_hours |-> available_hours,
                        created_at |-> now])
    /\ plan_seq' = plan_seq + 1
    /\ ret' = [op |-> "save_daily_plan", user_id |-> user_id, date |-> date,
               value |-> plan_seq + 1]
    /\ UNCHANGED <<profiles, profile_seq, reviews, review_seq, metadata>>

save_daily_plan(user_id, date, plan_content, available_hours, now) ==
    /\ Rows < MaxRows
    /\ plans' = insert_plan(plans, plan_seq, user_id, date, plan_content,
                            available_hours, now)
    /\ plan_seq' = plan_seq + 1
    /\ ret' = [op |-> "save_daily_plan", user_id |-> user_id, date |-> date,
               value |-> plan_seq + 1]
    /\ UNCHANGED <<profiles, profile_seq, reviews, review_seq, metadata>>

get_daily_plan(user_id, date) ==
    LET matching == {i \in DOMAIN plans :
                         plans[i].user_id = user_id /\ plans[i].date = date}
    IN  /\ \/ /\ matching = {}
              /\ ret' = [op |-> "get_daily_plan", user_id |-> user_id, date |-> date,
                         value |-> None]
           \/ \E i \in newest_created(plans, matching) :
                  ret' = [op |-> "get_daily_plan", user_id |-> user_id, date |-> date,
                          value |-> Some([id |-> plans[i].id,
                                          plan_content |-> plans[i].plan_content,
                                          available_hours |-> plans[i].available_hours,
                                          created_at |-> plans[i].created_at,
                                          date |-> date])]
        /\ UNCHANGED storeVars

\* the dates the model stores, in the order of their texts (the TEXT column
\* is compared byte by byte, which for ISO dates is the order of the days)
DateTexts == <<"2024-12-16", "2024-12-17">>

text_rank(date) == CHOOSE i \in DOMAIN DateTexts : DateTexts[i] = date

\* no ORDER BY: the rows as they were inserted
in_insertion_order(rows, matching) ==
    {order \in [1..Cardinality(matching) -> matching] :
        \A i, j \in DOMAIN order : i < j => order[i] < order[j]}

\* the orders a SELECT ... ORDER BY date DESC can give the matching rows:
\* SQLite leaves the order of equal dates open
ordered_by_date_desc(rows, matching) ==
    {order \in [1..Cardinality(matching) -> matching] :
        /\ \A i, j \in DOMAIN order : i # j => order[i] # order[j]
        /\ \A i, j \in DOMAIN order :
               i < j => text_rank(rows[order[i]].date) >= text_rank(rows[order[j]].date)}

\* LIMIT ?: a negative limit is no limit
limited(count, limit) == IF limit < 0 \/ limit > count THEN count ELSE limit

get_recent_daily_plans(user_id, limit) ==
    LET matching == {i \in DOMAIN plans : plans[i].user_id = user_id}
    IN  /\ \E order \in ordered_by_date_desc(plans, matching) :
               ret' = [op |-> "get_recent_daily_plans", user_id |-> user_id,
                       limit |-> limit,
                       value |-> [k \in 1..limited(Cardinality(matching), limit) |->
                                     [id |-> plans[order[k]].id,
                                      date |-> plans[order[k]].date,
                                      plan_content |-> plans[order[k]].plan_content,
                                      available_hours |-> plans[order[k]].available_hours,
                                      created_at |-> plans[order[k]].created_at]]]
        /\ UNCHANGED storeVars

save_weekly_review(user_id, week_start, week_end, review_content, now) ==
    /\ Rows < MaxRows
    /\ reviews' = insert_review(reviews, review_seq, user_id, week_start, week_end,
                                review_content, now)
    /\ review_seq' = review_seq + 1
    /\ ret' = [op |-> "save_weekly_review", user_id |-> user_id,
               value |-> review_seq + 1]
    /\ UNCHANGED <<profiles, profile_seq, plans, plan_seq, metadata>>

\* DB_PATH.unlink(), then init_database() on the new file
reset_database(now) ==
    /\ EmptyTables(now)
    /\ ret' = [op |-> "reset_database"]

\* the counts; the size of the file is not modelled
get_database_stats ==
    /\ ret' = [op |-> "get_database_stats",
               value |-> [total_profiles |-> Len(profiles),
                          active_profiles |->
                              Cardinality({i \in DOMAIN profiles : profiles[i].is_active = 1}),
                          total_daily_plans |-> Len(plans),
                          total_weekly_reviews |-> Len(reviews)]]
    /\ UNCHANGED storeVars

----------------------------------------------------------------------------
(* The store, its operations called one at a time *)

\* profile dicts handed to the store
ProfileInputs ==
    {[coaching_tone |-> "encouraging, practical", time_block_size |-> 30],
     [coaching_tone |-> "gentle, structured", db_id |-> 7]}

Owners == {1, 2}

Dates == {"2024-12-16", "2024-12-17"}

\* limits asked for: a negative one, none, one, as many rows as the store
\* can hold, and the default 7
Limits == {-1, 0, 1, MaxRows, 7}

NoSession ==
    [user_profile |-> None, onboarding_complete |-> FALSE,
     current_page |-> "daily_planning"]

\* the store as init_database leaves a new file
InitStore ==
    /\ profiles = <<>>
    /\ profile_seq = 0
    /\ plans = <<>>
    /\ plan_seq = 0
    /\ reviews = <<>>
    /\ review_seq = 0
    /\ metadata \in {[db_version |-> [value |-> DB_VERSION, updated_at |-> now]] : now \in Clock}
    /\ ret = [op |-> "init_database"]

Init ==
    /\ InitStore
    /\ session = NoSession
    /\ env = [GROQ_API_KEY |-> TRUE]
    /\ inp = <<>>
    /\ conn = <<>>
    /\ lock = 0

idle == <<session, env, inp, conn, lock>>

\* every operation of the store on the profile table; plans and reviews of
\* one owner
Next ==
    \/ \E now \in Clock : init_database(now) /\ UNCHANGED idle
    \/ \E d \in ProfileInputs, now \in Clock : save_user_profile(d, now) /\ UNCHANGED idle
    \/ get_active_user_profile /\ UNCHANGED idle
    \/ \E id \in 1..(profile_seq + 1), d \in ProfileInputs, now \in Clock :
           update_user_profile(id, d, now) /\ UNCHANGED idle
    \/ \E now \in Clock :
           save_daily_plan(1, "2024-12-16", "09:00 Quran ...", 3, now) /\ UNCHANGED idle
    \/ get_daily_plan(1, "2024-12-16") /\ UNCHANGED idle
    \/ \E now \in Clock :
           save_weekly_review(1, "2024-12-16", "2024-12-22", "Great progress ...", now)
           /\ UNCHANGED idle
    \/ \E now \in Clock : reset_database(now) /\ UNCHANGED idle
    \/ get_database_stats /\ UNCHANGED idle

Spec == Init /\ [][Next]_vars

\* every operation of the store on plans and reviews, for several owners and
\* dates; profiles of one content
NextPlans ==
    \/ \E now \in Clock :
           save_user_profile([coaching_tone |-> "encouraging, practical"], now)
           /\ UNCHANGED idle
    \/ \E u \in Owners, date \in Dates, now \in Clock :
           save_daily_plan(u, date, "09:00 Quran ...", 3, now) /\ UNCHANGED idle
    \/ \E u \in Owners, date \in Dates : get_daily_plan(u, date) /\ UNCHANGED idle
    \/ \E u \in Owners, limit \in Limits :
           get_recent_daily_plans(u, limit) /\ UNCHANGED idle
    \/ \E u \in Owners, now \in Clock :
           save_weekly_review(u, "2024-12-16", "2024-12-22", "Great progress ...", now)
           /\ UNCHANGED idle
    \/ \E now \in Clock : reset_database(now) /\ UNCHANGED idle

SpecPlans == Init /\ [][NextPlans]_vars

----------------------------------------------------------------------------
(* Two writers inside save_user_profile at once, each on its own connection *)

Writers == {1, 2}

Idle == [pc |-> "idle", profile_data |-> <<>>, user_id |-> 0]

InitWriters ==
    /\ InitStore
    /\ session = NoSession
    /\ env = [GROQ_API_KEY |-> TRUE]
    /\ inp = <<>>
    /\ conn = [w \in Writers |-> Idle]
    /\ lock = 0

InCall == {w \in Writers : conn[w].pc \in {"connected", "deactivated", "inserted"}}

\* the UPDATE is sent with no regard to the lock of another connection
write_lock_ignored(holder, w) == TRUE

\* sqlite3.connect with the default isolation_level: the first UPDATE opens a
\* transaction, and SQLite gives it the write lock only when no other
\* connection holds it
write_lock_granted(holder, w) == holder \in {0, w}

\* conn = sqlite3.connect(DB_PATH)
writer_connect(w, profile_data) ==
    /\ conn[w].pc = "idle"
    /\ Rows + Cardinality(InCall) < MaxRows
    /\ conn' = [conn EXCEPT ![w] = [pc |-> "connected", profile_data |-> profile_data,
                                    user_id |-> 0]]
    /\ UNCHANGED <<storeVars, ret, lock>>

\* the UPDATE; the transaction it opens holds the write lock up to the commit,
\* so what it writes before the commit is seen by no other writer
writer_deactivate(w) ==
    /\ conn[w].pc = "connected"
    /\ write_lock_granted(lock, w)
    /\ lock' = w
    /\ profiles' = deactivate_active(profiles)
    /\ conn' = [conn EXCEPT ![w].pc = "deactivated"]
    /\ UNCHANGED <<profile_seq, plans, plan_seq, reviews, review_seq, metadata, ret>>

\* the UPDATE finds the database locked for the whole timeout of the
\* connection: sqlite3.OperationalError leaves save_user_profile
writer_busy(w) ==
    /\ conn[w].pc = "connected"
    /\ lock \notin {0, w}
    /\ conn' = [conn EXCEPT ![w].pc = "failed"]
    /\ ret' = [op |-> "save_user_profile", writer |-> w, exc |-> "OperationalError"]
    /\ UNCHANGED <<storeVars, lock>>

\* the INSERT and cursor.lastrowid
writer_insert(w, now) ==
    /\ conn[w].pc = "deactivated"
    /\ profiles' = insert_profile(profiles, profile_seq, conn[w].profile_data, now)
    /\ profile_seq' = profile_seq + 1
    /\ conn' = [conn EXCEPT ![w].pc = "inserted", ![w].user_id = profile_seq + 1]
    /\ UNCHANGED <<plans, plan_seq, reviews, review_seq, metadata, ret, lock>>

\* conn.commit(), conn.close(), return user_id
writer_commit(w) ==
    /\ conn[w].pc = "inserted"
    /\ lock' = IF lock = w THEN 0 ELSE lock
    /\ conn' = [conn EXCEPT ![w].pc = "done"]
    /\ ret' = [op |-> "save_user_profile", writer |-> w, exc |-> "none",
               profile_data |-> conn[w].profile_data, value |-> conn[w].user_id]
    /\ UNCHANGED storeVars

\* the caller goes on and may call again
writer_return(w) ==
    /\ conn[w].pc \in {"done", "failed"}
    /\ conn' = [conn EXCEPT ![w] = Idle]
    /\ UNCHANGED <<storeVars, ret, lock>>

NextWriters ==
    \/ \E w \in Writers, d \in ProfileInputs :
           writer_connect(w, d) /\ UNCHANGED <<session, env, inp>>
    \/ \E w \in Writers : writer_deactivate(w) /\ UNCHANGED <<session, env, inp>>
    \/ \E w \in Writers : writer_busy(w) /\ UNCHANGED <<session, env, inp>>
    \/ \E w \in Writers, now \in Clock : writer_insert(w, now) /\ UNCHANGED <<session, env, inp>>
    \/ \E w \in Writers : writer_commit(w) /\ UNCHANGED <<session, env, inp>>
    \/ \E w \in Writers : writer_return(w) /\ UNCHANGED <<session, env, inp>>

SpecWriters == InitWriters /\ [][NextWriters]_vars

----------------------------------------------------------------------------
(* get_ai_config on its own: every feature name with every profile *)

CatalogFeatures == DOMAIN MODELS

Features == CatalogFeatures \cup {"unknown_feature_xyz", ""}

\* what the onboarding form always collects besides language and goals
FormAnswers ==
    [role |-> "Parent with young children", available_time |-> "1-2 hours",
     challenges |-> "Finding time with kids",
     islamic_practice |-> "Practicing - working on consistency",
     motivation_style |-> "Mix of everything"]

Answers(language, goals) ==
    Put(Put(FormAnswers, "language", language), "goals", goals)

TwoGoals == PyList("str", <<"Quran memorization/study", "Career development">>)

FourGoals ==
    PyList("str", <<"Quran memorization/study", "Career development",
                    "Family time", "Health & fitness">>)

mock_profile ==
    [system_message_daily_planning |-> <<"You are a coach for busy parents...">>,
     onboarding_data |-> [language |-> "Deutsch"]]

CfgProfiles ==
    {None,
     Some(Without([x |-> 0], "x")),
     Some(mock_profile),
     Some([language_code |-> "de"]),
     Some([language_code |-> "fr",
           system_message_weekly_review |-> <<"You review the week of a student ...">>]),
     Some(get_default_profile(Answers("Deutsch", TwoGoals), 0)),
     Some(get_default_profile(Answers("al-Arabiyya", TwoGoals), 0)),
     Some(Put(Put(FullJson, "onboarding_data", Answers("Francais", FourGoals)),
              "language_code", "fr")),
     Some([onboarding_data |-> [role |-> "Student"]]),
     Some([onboarding_data |-> [language |-> "Klingon"], language_code |-> "tlh"]),
     Some([onboarding_data |-> [language |-> "Deutsch"], language_code |-> "fr"]),
     Some([onboarding_data |-> NotADict("Deutsch"), language_code |-> "de"]),
     Some([system_message_quick_task |-> <<>>]),
     Some([system_message_unknown_feature_xyz |-> <<"You are a coach for night owls...">>,
           onboarding_data |-> [language |-> "Francais"]]),
     Some([system_message_daily_planning |-> <<"You are a coach for busy parents...">>,
           onboarding_data |-> NotADict("Deutsch")])}

InitConfig ==
    /\ InitStore
    /\ session = NoSession
    /\ env = [GROQ_API_KEY |-> TRUE]
    /\ inp \in [feature : Features, user_profile : CfgProfiles]
    /\ conn = <<>>
    /\ lock = 0

call_get_ai_config ==
    /\ ret.op = "init_database"
    /\ ret' = [op |-> "get_ai_config",
               result |-> get_ai_config(inp.feature, inp.user_profile)]
    /\ UNCHANGED <<storeVars, session, env, inp, conn, lock>>

NextConfig == call_get_ai_config

SpecConfig == InitConfig /\ [][NextConfig]_vars

----------------------------------------------------------------------------
(* create_messages on its own: features, profiles, inputs and histories *)

Histories ==
    {None,
     Some(<<>>),
     Some(<<[role |-> "user", content |-> "I have 3 hours today"]>>),
     Some(<<[role |-> "user", content |-> "I have 3 hours today"],
            [role |-> "assistant", content |-> "09:00 Quran ..."]>>),
     Some(<<[role |-> "system", content |-> "Be brief."],
            [role |-> "assistant", content |-> "09:00 Quran ..."],
            [role |-> "user", content |-> "Move Quran to the evening"]>>)}

MsgProfiles ==
    {None,
     Some(mock_profile),
     Some(get_default_profile(Answers("Francais", TwoGoals), 0)),
     Some([onboarding_data |-> NotADict("Deutsch"), language_code |-> "de"])}

InitMessages ==
    /\ InitStore
    /\ session = NoSession
    /\ env = [GROQ_API_KEY |-> TRUE]
    /\ inp \in [feature : {"daily_planning", "weekly_review", "unknown_feature_xyz"},
                user_input : {"I have 3 hours today", ""},
                user_profile : MsgProfiles,
                conversation_history : Histories]
    /\ conn = <<>>
    /\ lock = 0

call_create_messages ==
    /\ ret.op = "init_database"
    /\ ret' = [op |-> "create_messages",
               result |-> create_messages(inp.feature, inp.user_input,
                                          inp.user_profile, inp.conversation_history)]
    /\ UNCHANGED <<storeVars, session, env, inp, conn, lock>>

NextMessages == call_create_messages

SpecMessages == InitMessages /\ [][NextMessages]_vars

----------------------------------------------------------------------------
(* generate_user_profile on its own: every answers mapping with every
   behaviour of the completion call, then validate_profile on what it gave *)

GenAnswers ==
    {Answers("Deutsch", TwoGoals),
     Answers("al-Arabiyya", FourGoals),
     Answers("Deutsch", PyList("str", <<>>)),
     Answers("English", PyList("int", <<1, 2>>)),
     Answers("Francais", PyStr("Career development")),
     Without(Answers("Deutsch", TwoGoals), "goals"),
     Without(Answers("Deutsch", TwoGoals), "language"),
     [language |-> "Deutsch", goals |-> TwoGoals]}

\* what the completion call does: it raises, answers without content, or
\* answers with a text. means and json say what the text is, for the claims;
\* generate_user_profile reads kind and content only
Text(content, means, json) ==
    [kind |-> "text", content |-> content, means |-> means, json |-> json]

ObjectTexts ==
    {"full", "no_daily", "no_weekly", "no_tone", "no_focus", "no_block",
     "no_emphasis", "empty", "extra"}

GenCompletions ==
    {[kind |-> "raises", content |-> <<>>, means |-> "raises", json |-> ""],
     [kind |-> "no_content", content |-> <<>>, means |-> "no_content", json |-> ""],
     Text(<<>>, "not_json", ""),
     Text(<<"Sure! Here is the profile you asked for.">>, "not_json", ""),
     Text(<<"Here is the profile:", " ", "full">>, "not_json", ""),
     Text(<<"full", " ", "Let me know if you need changes.">>, "not_json", ""),
     Text(<<"<fence>">>, "not_json", ""),
     Text(<<"array">>, "not_object", "array"),
     Text(<<"null">>, "not_object", "null"),
     Text(<<"<fence>", "json", " ", "array", " ", "<fence>">>, "not_object", "array"),
     Text(<<" ", "full", " ">>, "object", "full"),
     Text(<<"<fence>", "json", " ", "full", " ", "<fence>">>, "object", "full"),
     Text(<<"<fence>", " ", "no_tone", " ", "<fence>", " ">>, "object", "no_tone"),
     Text(<<"<fence>", "json", " ", "extra">>, "object", "extra")}
    \cup {Text(<<j>>, "object", j) : j \in ObjectTexts}

InitGenerate ==
    /\ InitStore
    /\ session = NoSession
    /\ env \in [GROQ_API_KEY : BOOLEAN]
    /\ inp \in [onboarding_data : GenAnswers, completion : GenCompletions, now : Clock]
    /\ conn = <<>>
    /\ lock = 0

call_generate_user_profile ==
    /\ ret.op = "init_database"
    /\ ret' = [op |-> "generate_user_profile",
               result |-> generate_user_profile(inp.onboarding_data, env,
                                                inp.completion, inp.now)]
    /\ UNCHANGED <<storeVars, session, env, inp, conn, lock>>

call_validate_profile ==
    /\ ret.op = "generate_user_profile"
    /\ ret.result.exc = "none"
    /\ ret' = [op |-> "validate_profile", profile |-> ret.result.value[1],
               value |-> validate_profile(ret.result.value[1])]
    /\ UNCHANGED <<storeVars, session, env, inp, conn, lock>>

NextGenerate ==
    \/ call_generate_user_profile
    \/ call_validate_profile

SpecGenerate == InitGenerate /\ [][NextGenerate]_vars

----------------------------------------------------------------------------
(* app.py: one browser session on the store. Every action is one run of the
   script: main() from its top, the page it routes to, the handler of the
   button pressed in that run, and the run st.rerun() starts. *)

\* the language names the form offers: the name of every LANGUAGES entry
language_options == {LANGUAGES[code].name : code \in DOMAIN LANGUAGES}

\* what the form can hand over: st.multiselect gives a list of the options
AppAnswers ==
    {Answers(language, goals) :
        language \in language_options,
        goals \in {PyList("str", <<>>), TwoGoals, FourGoals}}

\* main(), up to the routing: the session loads the active profile of the
\* store when it holds none
main_session(state, existing) ==
    IF ~Truthy(state.user_profile) /\ Truthy(existing)
    THEN [state EXCEPT !.user_profile = existing, !.onboarding_complete = TRUE]
    ELSE state

InitApp ==
    /\ InitStore
    /\ session = NoSession
    /\ env \in [GROQ_API_KEY : BOOLEAN]
    /\ inp = <<>>
    /\ conn = <<>>
    /\ lock = 0

\* a run in which nothing is pressed
app_view(now) ==
    /\ \E existing \in active_user_profile(profiles) :
           session' = main_session(session, existing)
    /\ metadata' = Put(metadata, "db_version", [value |-> DB_VERSION, updated_at |-> now])
    /\ ret' = [op |-> "main"]
    /\ UNCHANGED <<profiles, profile_seq, plans, plan_seq, reviews, review_seq,
                   env, inp, conn, lock>>

\* show_onboarding with the submit button pressed
app_submit_onboarding(answers, completion, now) ==
    \E existing \in active_user_profile(profiles) :
        LET state == main_session(session, existing)
            generated == generate_user_profile(answers, env, completion, now)
            profile == generated.value[1]
            outcome == IF Len(answers["goals"].val) = 0 THEN "no_goals"
                       ELSE IF generated.exc # "none" THEN "raised"
                       ELSE IF ~validate_profile(profile) THEN "invalid"
                       ELSE "saved"
        IN  /\ ~state.onboarding_complete
            /\ metadata' = Put(metadata, "db_version",
                               [value |-> DB_VERSION, updated_at |-> now])
            /\ IF outcome = "saved"
               THEN /\ Rows < MaxRows
                    /\ profiles' = insert_profile(deactivate_active(profiles),
                                                  profile_seq, profile, now)
                    /\ profile_seq' = profile_seq + 1
                    /\ session' = [state EXCEPT
                                     !.user_profile = Some(Put(profile, "db_id", profile_seq + 1)),
                                     !.onboarding_complete = TRUE]
                    /\ ret' = [op |-> "show_onboarding", outcome |-> outcome,
                               profile |-> Some(profile), valid |-> TRUE]
               ELSE /\ UNCHANGED <<profiles, profile_seq>>
                    /\ session' = state
                    /\ ret' = [op |-> "show_onboarding", outcome |-> outcome,
                               profile |-> IF outcome = "invalid" THEN Some(profile) ELSE None,
                               valid |-> FALSE]
            /\ UNCHANGED <<plans, plan_seq, reviews, review_seq, env, inp, conn, lock>>

\* show_settings with 'Redo Onboarding' pressed: the handler empties the
\* session and st.rerun() runs main() again
app_redo_onboarding(now) ==
    \E existing \in active_user_profile(profiles) :
        LET state == main_session(session, existing)
            emptied == [state EXCEPT !.onboarding_complete = FALSE, !.user_profile = None]
        IN  /\ state.onboarding_complete
            /\ session' = main_session(emptied, existing)
            /\ metadata' = Put(metadata, "db_version",
                               [value |-> DB_VERSION, updated_at |-> now])
            /\ ret' = [op |-> "show_settings", button |-> "redo_onboarding"]
            /\ UNCHANGED <<profiles, profile_seq, plans, plan_seq, reviews, review_seq,
                           env, inp, conn, lock>>

\* the browser opens the app anew: an empty st.session_state
app_new_session ==
    /\ session' = NoSession
    /\ ret' = [op |-> "new_session"]
    /\ UNCHANGED <<storeVars, env, inp, conn, lock>>

NextApp ==
    \/ \E now \in Clock : app_view(now)
    \/ \E answers \in AppAnswers, completion \in GenCompletions, now \in Clock :
           app_submit_onboarding(answers, completion, now)
    \/ \E now \in Clock : app_redo_onboarding(now)
    \/ app_new_session

SpecApp == InitApp /\ [][NextApp]_vars

----------------------------------------------------------------------------
(* app.py: the session with its pages. The sidebar, the daily planning and
   weekly review pages and the buttons of the settings page, on a store that
   holds plans and reviews besides the profile. *)

Pages == {"daily_planning", "weekly_review", "settings"}

SessionAnswers ==
    {Answers("Deutsch", TwoGoals), Answers("English", PyList("str", <<>>))}

SessionCompletions ==
    {[kind |-> "raises", content |-> <<>>, means |-> "raises", json |-> ""],
     Text(<<"full">>, "object", "full"),
     Text(<<"no_tone">>, "object", "no_tone")}

\* what the completion request of a page gives: an exception, a message
\* without content, or a text
PageCompletions ==
    {[kind |-> "raises"], [kind |-> "no_content"],
     [kind |-> "text", content |-> "09:00 Quran ..."]}

\* profile['db_id'] read with a default
db_id_or_default(profile) == 0

\* profile['db_id']
db_id_of(profile) == profile["db_id"]

\* the row, if any, that get_daily_plan(user_id, date) finds
has_daily_plan(rows, user_id, date) ==
    \E i \in DOMAIN rows : rows[i].user_id = user_id /\ rows[i].date = date

\* the sidebar: a menu button sets current_page and reruns
app_navigate(page, now) ==
    \E existing \in active_user_profile(profiles) :
        LET state == main_session(session, existing)
        IN  /\ state.onboarding_complete
            /\ session' = [state EXCEPT !.current_page = page]
            /\ metadata' = Put(metadata, "db_version",
                               [value |-> DB_VERSION, updated_at |-> now])
            /\ ret' = [op |-> "show_sidebar", page |-> page]
            /\ UNCHANGED <<profiles, profile_seq, plans, plan_seq, reviews, review_seq,
                           env, inp, conn, lock>>

\* show_daily_planning with the generate button pressed: the form is there
\* when the date has no plan; the plan is saved when the request gave a text
app_generate_plan(date, completion, now) ==
    \E existing \in active_user_profile(profiles) :
        LET state == main_session(session, existing)
            profile == state.user_profile[1]
            focus_areas == Get(profile, "key_focus_areas", PyList("str", <<>>))
            saved == /\ ~join_raises(focus_areas)
                     /\ get_ai_config("daily_planning", state.user_profile).exc = "none"
                     /\ env.GROQ_API_KEY
                     /\ completion.kind = "text"
        IN  /\ state.onboarding_complete
            /\ state.current_page = "daily_planning"
            /\ ~has_daily_plan(plans, db_id_of(profile), date)
            /\ session' = state
            /\ metadata' = Put(metadata, "db_version",
                               [value |-> DB_VERSION, updated_at |-> now])
            /\ IF saved
               THEN /\ Len(plans) + Len(reviews) < MaxRows
                    /\ plans' = insert_plan(plans, plan_seq, db_id_of(profile), date,
                                            completion.content, 3, now)
                    /\ plan_seq' = plan_seq + 1
               ELSE UNCHANGED <<plans, plan_seq>>
            /\ ret' = [op |-> "show_daily_planning", button |-> "generate",
                       date |-> date, saved |-> saved]
            /\ UNCHANGED <<profiles, profile_seq, reviews, review_seq,
                           env, inp, conn, lock>>

\* show_daily_planning with the regenerate button pressed: the handler sets
\* its local existing_plan to None and reruns; the new run reads the plan of
\* the date again. form_shown: does that run reach the generation form
app_regenerate_plan(date, now) ==
    \E existing \in active_user_profile(profiles) :
        LET state == main_session(session, existing)
            profile == state.user_profile[1]
        IN  /\ state.onboarding_complete
            /\ state.current_page = "daily_planning"
            /\ has_daily_plan(plans, db_id_of(profile), date)
            /\ session' = state
            /\ metadata' = Put(metadata, "db_version",
                               [value |-> DB_VERSION, updated_at |-> now])
            /\ ret' = [op |-> "show_daily_planning", button |-> "regenerate",
                       date |-> date, saved |-> FALSE,
                       form_shown |-> ~has_daily_plan(plans, db_id_of(profile), date)]
            /\ UNCHANGED <<profiles, profile_seq, plans, plan_seq, reviews, review_seq,
                           env, inp, conn, lock>>

\* show_weekly_review with the generate button pressed: the page returns
\* early when the owner has no plan
app_generate_review(completion, now) ==
    \E existing \in active_user_profile(profiles) :
        LET state == main_session(session, existing)
            profile == state.user_profile[1]
            saved == /\ get_ai_config("weekly_review", state.user_profile).exc = "none"
                     /\ env.GROQ_API_KEY
                     /\ completion.kind = "text"
        IN  /\ state.onboarding_complete
            /\ state.current_page = "weekly_review"
            /\ \E i \in DOMAIN plans : plans[i].user_id = db_id_of(profile)
            /\ session' = state
            /\ metadata' = Put(metadata, "db_version",
                               [value |-> DB_VERSION, updated_at |-> now])
            /\ IF saved
               THEN /\ Len(plans) + Len(reviews) < MaxRows
                    /\ reviews' = insert_review(reviews, review_seq, db_id_of(profile),
                                                "2024-12-16", "2024-12-22",
                                                completion.content, now)
                    /\ review_seq' = review_seq + 1
               ELSE UNCHANGED <<reviews, review_seq>>
            /\ ret' = [op |-> "show_weekly_review", button |-> "generate",
                       saved |-> saved]
            /\ UNCHANGED <<profiles, profile_seq, plans, plan_seq,
                           env, inp, conn, lock>>

\* st.button(reset_data): true in the run that its click started
reset_button(event) == event = "reset_data"

\* st.checkbox(reset_confirm), called inside the button's branch: a tick
\* reaches the script in the run the tick started, for a checkbox that the
\* run before had drawn
reset_checkbox(event, drawn_before) == drawn_before /\ event = "reset_confirm"

\* show_settings in a run started by the reset button ("reset_data") or by
\* a tick of the confirmation checkbox ("reset_confirm"); the checkbox is on
\* the page only after a run that took the button's branch
app_settings_reset(event, now) ==
    \E existing \in active_user_profile(profiles) :
        LET state == main_session(session, existing)
            drawn_before == /\ ret.op = "show_settings"
                            /\ ret.button = "reset_data"
            executed == reset_button(event) /\ reset_checkbox(event, drawn_before)
        IN  /\ state.onboarding_complete
            /\ state.current_page = "settings"
            /\ event = "reset_confirm" => drawn_before
            /\ IF executed
               THEN /\ EmptyTables(now)
                    /\ session' = [state EXCEPT !.onboarding_complete = FALSE,
                                                !.user_profile = None]
               ELSE /\ session' = state
                    /\ metadata' = Put(metadata, "db_version",
                                       [value |-> DB_VERSION, updated_at |-> now])
                    /\ UNCHANGED <<profiles, profile_seq, plans, plan_seq,
                                   reviews, review_seq>>
            /\ ret' = [op |-> "show_settings", button |-> event,
                       reset_executed |-> executed]
            /\ UNCHANGED <<env, inp, conn, lock>>

NextSession ==
    \/ \E now \in Clock : app_view(now)
    \/ \E answers \in SessionAnswers, completion \in SessionCompletions, now \in Clock :
           app_submit_onboarding(answers, completion, now)
    \/ \E page \in Pages, now \in Clock : app_navigate(page, now)
    \/ \E date \in Dates, completion \in PageCompletions, now \in Clock :
           app_generate_plan(date, completion, now)
    \/ \E date \in Dates, now \in Clock : app_regenerate_plan(date, now)
    \/ \E completion \in PageCompletions, now \in Clock :
           app_generate_review(completion, now)
    \/ \E now \in Clock : session.current_page = "settings" /\ app_redo_onboarding(now)
    \/ \E event \in {"reset_data", "reset_confirm"}, now \in Clock :
           app_settings_reset(event, now)
    \/ app_new_session

SpecSession == InitApp /\ [][NextSession]_vars

----------------------------------------------------------------------------
(* get_default_profile on its own, then validate_profile on what it gave *)

OneGoal == PyList("str", <<"Health & fitness">>)

ThreeGoals ==
    PyList("str", <<"Family time", "Quran memorization/study", "Career development">>)

\* goals values: a list of the form's options, of any length; a list whose
\* members are not text; a text; and no goals key ("absent")
DefaultGoals ==
    {PyList("str", <<>>), OneGoal, TwoGoals, ThreeGoals, FourGoals,
     PyList("int", <<1, 2>>), PyStr("Career development")}

DefaultAnswers ==
    {Answers(language, goals) :
         language \in language_options \cup {"Klingon"}, goals \in DefaultGoals}
    \cup {Without(Answers(language, TwoGoals), "goals") :
              language \in language_options \cup {"Klingon"}}
    \cup {Without(Answers("Deutsch", goals), "language") : goals \in DefaultGoals}
    \cup {Without(Answers("Deutsch", goals), "role") : goals \in DefaultGoals}

InitDefault ==
    /\ InitStore
    /\ session = NoSession
    /\ env = [GROQ_API_KEY |-> TRUE]
    /\ inp \in [onboarding_data : DefaultAnswers, now : Clock]
    /\ conn = <<>>
    /\ lock = 0

call_get_default_profile ==
    /\ ret.op = "init_database"
    /\ ret' = [op |-> "get_default_profile",
               result |-> IF get_default_profile_raises(inp.onboarding_data)
                          THEN Raise("TypeError")
                          ELSE Return(get_default_profile(inp.onboarding_data, inp.now))]
    /\ UNCHANGED <<storeVars, session, env, inp, conn, lock>>

call_validate_default_profile ==
    /\ ret.op = "get_default_profile"
    /\ ret.result.exc = "none"
    /\ ret' = [op |-> "validate_profile", profile |-> ret.result.value[1],
               value |-> validate_profile(ret.result.value[1])]
    /\ UNCHANGED <<storeVars, session, env, inp, conn, lock>>

NextDefault ==
    \/ call_get_default_profile
    \/ call_validate_default_profile

SpecDefault == InitDefault /\ [][NextDefault]_vars

----------------------------------------------------------------------------
(* validate_profile on its own: profiles with any of the required keys, with
   sound or unusable values, with and without further keys *)

SoundValues ==
    Put(Put(FullJson, "onboarding_data", Answers("Deutsch", TwoGoals)), "is_default", FALSE)

\* no text (JSON null) for the messages, an empty tone, a text for the list,
\* a negative block size, a text for the answers
UnusableValues ==
    [system_message_daily_planning |-> None,
     system_message_weekly_review  |-> None,
     coaching_tone    |-> "",
     key_focus_areas  |-> PyStr("Career development"),
     time_block_size  |-> -5,
     islamic_emphasis |-> "",
     onboarding_data  |-> NotADict("Deutsch"),
     is_default       |-> TRUE]

ValidateProfiles ==
    {[k \in keys \cup further |-> values[k]] :
         keys \in SUBSET {required_fields[i] : i \in DOMAIN required_fields},
         further \in {{}, {"islamic_emphasis", "is_default"}},
         values \in {SoundValues, UnusableValues}}

InitValidate ==
    /\ InitStore
    /\ session = NoSession
    /\ env = [GROQ_API_KEY |-> TRUE]
    /\ inp \in [profile : ValidateProfiles]
    /\ conn = <<>>
    /\ lock = 0

call_validate_input_profile ==
    /\ ret.op = "init_database"
    /\ ret' = [op |-> "validate_profile", profile |-> inp.profile,
               value |-> validate_profile(inp.profile)]
    /\ UNCHANGED <<storeVars, session, env, inp, conn, lock>>

NextValidate == call_validate_input_profile

SpecValidate == InitValidate /\ [][NextValidate]_vars

----------------------------------------------------------------------------
(* Claims on the store *)

ActiveRows == {i \in DOMAIN profiles : profiles[i].is_active = 1}

\* C1: whatever store operations ran, one at a time, at most one profile row
\* has is_active = 1, and exactly one has it once save_user_profile has
\* completed since the last reset (the AUTOINCREMENT sequence is past 0).
C1_SingleActiveProfile ==
    /\ Cardinality(ActiveRows) <= 1
    /\ profile_seq > 0 => Cardinality(ActiveRows) = 1

\* two profiles were saved and one of them updated afterwards
C1_Witness ==
    /\ Len(profiles) = 2
    /\ ret.op = "update_user_profile"
    /\ ret.value

DbKeys == {"db_id", "db_created_at", "db_updated_at"}

\* C2: when save_user_profile has returned, every row saved earlier is
\* inactive, and get_active_user_profile called next returns the data that
\* call was given, under the keys it was given, with db_id the id the call
\* returned.
C2_ActiveIsLastSaved ==
    [][ret.op = "save_user_profile" =>
         /\ \A i \in DOMAIN profiles :
                profiles[i].id # ret.value => profiles[i].is_active = 0
         /\ ret'.op = "get_active_user_profile" =>
                /\ ret'.value # None
                /\ ret'.value[1]["db_id"] = ret.value
                /\ DOMAIN ret'.value[1] = (DOMAIN ret.profile_data) \cup DbKeys
                /\ \A k \in (DOMAIN ret.profile_data) \ DbKeys :
                       ret'.value[1][k] = ret.profile_data[k]]_vars

\* get_active_user_profile returned the second of two saved profiles
C2_Witness ==
    /\ ret.op = "get_active_user_profile"
    /\ Len(profiles) = 2
    /\ ret.value # None
    /\ ret.value[1]["db_id"] = 2

\* the newest plan row of an owner and date: the one the last
\* save_daily_plan call for them inserted
LastSavedPlan(user_id, date) ==
    LET matching == {i \in DOMAIN plans :
                         plans[i].user_id = user_id /\ plans[i].date = date}
    IN  IF matching = {} THEN None
        ELSE Some(plans[CHOOSE i \in matching : \A j \in matching : j <= i])

\* C8: get_daily_plan(owner, date) returns the row the last save_daily_plan
\* call for that owner and date inserted, whatever created_at the clock gave
\* the rows, and None iff no plan was saved for them.
C8_PlanForIsLastSaved ==
    ret.op = "get_daily_plan" =>
        LET last == LastSavedPlan(ret.user_id, ret.date)
        IN  /\ ret.value = None <=> last = None
            /\ ret.value # None => ret.value[1].id = last[1].id

\* C10: save_user_profile keeps every row there was, with its id,
\* profile_data, created_at and updated_at, adds exactly one row, and returns
\* an id no earlier row has.
C10_SaveRetainsHistory ==
    [][ret'.op = "save_user_profile" =>
         /\ Len(profiles') = Len(profiles) + 1
         /\ \A i \in DOMAIN profiles :
                /\ profiles'[i].id = profiles[i].id
                /\ profiles'[i].profile_data = profiles[i].profile_data
                /\ profiles'[i].created_at = profiles[i].created_at
                /\ profiles'[i].updated_at = profiles[i].updated_at
                /\ profiles[i].id # ret'.value
         /\ profiles'[Len(profiles')].id = ret'.value]_vars

\* a second profile was saved while the first was active
C10_Witness ==
    /\ ret.op = "save_user_profile"
    /\ Len(profiles) = 2
    /\ profiles[1].is_active = 0
    /\ ret.value = 2

\* C9: when calls of save_user_profile overlap, whatever the order of their
\* UPDATE and INSERT steps, once no call is between its UPDATE and its commit
\* at most one profile row has is_active = 1, and exactly one when a call has
\* committed.
C9_OverlappingSavesOneActive ==
    (\A w \in Writers : conn[w].pc \notin {"deactivated", "inserted"}) =>
        /\ Cardinality(ActiveRows) <= 1
        /\ profile_seq > 0 => Cardinality(ActiveRows) = 1

\* both writers were inside save_user_profile together and both committed
C9_Witness ==
    /\ \A w \in Writers : conn[w].pc = "done"
    /\ Len(profiles) = 2

----------------------------------------------------------------------------
(* Claims on the profile generator *)

\* the required fields the model's JSON has to bring; onboarding_data, the
\* sixth, is attached by generate_user_profile
ModelFields ==
    {"system_message_daily_planning", "system_message_weekly_review",
     "coaching_tone", "key_focus_areas", "time_block_size"}

AttachedFields == {"onboarding_data", "created_at", "language_code"}

FellBack(profile) == profile = get_default_profile(inp.onboarding_data, inp.now)

CompleteObject(completion) ==
    /\ completion.means = "object"
    /\ ModelFields \subseteq DOMAIN JsonTexts[completion.json].val

\* C3 as claimed: whatever the completion did, the profile generate_user_profile
\* returned passes validate_profile, and it is the default profile unless the
\* completion gave a complete well-formed JSON object.
C3_AlwaysValidOrDefault ==
    ret.op = "validate_profile" =>
        /\ ret.value
        /\ FellBack(ret.profile) <=> ~CompleteObject(inp.completion)

\* C3 amended: when the completion raised, gave no text, gave text that is
\* not JSON or JSON that is not an object, the returned profile is the default
\* profile (is_default = true) and passes validate_profile; every JSON
\* object is returned without falling back, its own fields unchanged and
\* onboarding_data attached, and passes validate_profile iff it brings the
\* five required fields other than onboarding_data.
C3_FallbackOnlyWithoutObject ==
    ret.op = "validate_profile" =>
        /\ inp.completion.means # "object" =>
               /\ FellBack(ret.profile)
               /\ ret.profile["is_default"]
               /\ ret.value
        /\ inp.completion.means = "object" =>
               LET object == JsonTexts[inp.completion.json].val
               IN  /\ ~FellBack(ret.profile)
                   /\ \A k \in (DOMAIN object) \ AttachedFields :
                          ret.profile[k] = object[k]
                   /\ ret.profile["onboarding_data"] = inp.onboarding_data
                   /\ ret.value <=> ModelFields \subseteq DOMAIN object

\* a fenced JSON object without coaching_tone was returned, not the default
\* profile, and validate_profile refused it
C3_Witness ==
    /\ ret.op = "validate_profile"
    /\ inp.completion.json = "no_tone"
    /\ startswith(inp.completion.content, "<fence>")
    /\ ~ret.value
    /\ "is_default" \notin DOMAIN ret.profile

\* C4: generate_user_profile never raises to its caller, whatever the answers
\* mapping and whatever the completion call does.
C4_NeverRaises ==
    ret.op = "generate_user_profile" => ret.result.exc = "none"

----------------------------------------------------------------------------
(* Claims on the configuration resolver *)

Last(seq) == seq[Len(seq)]

\* C5: for a feature name that is not in the catalog, get_ai_config(name)
\* returns the configuration get_ai_config("quick_task") returns: model,
\* temperature, max_tokens and system message.
C5_UnknownFeatureIsQuickTask ==
    (/\ ret.op = "get_ai_config"
     /\ inp.feature \notin CatalogFeatures
     /\ inp.user_profile = None) =>
        ret.result = get_ai_config("quick_task", None)

DirectiveOfName(language_name) ==
    CASE language_name = "Deutsch" -> "Antworte auf Deutsch."
      [] language_name = "Francais" -> "Repondez en francais."
      [] language_name = "al-Arabiyya (Arabic)" ->
             "Respond in Arabic (al-Arabiyya). Use proper Arabic script."
      [] OTHER -> "Respond in English."

Pieces(seq) == {seq[i] : i \in DOMAIN seq}

----------------------------------------------------------------------------
(* Claims on the onboarding flow *)

RequiredFields == ModelFields \cup {"onboarding_data"}

\* C7: the onboarding flow writes a profile to the store only when
\* validate_profile returned true for it: every stored profile has the six
\* required fields, the profile table changes only in a run that validated
\* the profile it saves, and a run whose validation failed leaves the profile
\* table and the session's onboarding_complete and user_profile as they were.
C7_OnlyValidatedProfilesStored ==
    [][/\ \A i \in DOMAIN profiles' :
              RequiredFields \subseteq DOMAIN json_loads(profiles'[i].profile_data)
       /\ profiles' # profiles =>
              /\ ret'.op = "show_onboarding"
              /\ ret'.valid
              /\ RequiredFields \subseteq DOMAIN ret'.profile[1]
       /\ (ret'.op = "show_onboarding" /\ ret'.outcome = "invalid") =>
              /\ ~(RequiredFields \subseteq DOMAIN ret'.profile[1])
              /\ UNCHANGED <<profiles, profile_seq, plans, reviews, session>>]_vars

\* a generated profile failed validation and nothing was stored
C7_Witness ==
    /\ ret.op = "show_onboarding"
    /\ ret.outcome = "invalid"
    /\ profiles = <<>>
    /\ ~session.onboarding_complete

StartsWith(text, prefix) ==
    Len(text) >= Len(prefix) /\ SubSeq(text, 1, Len(prefix)) = prefix

\* the personalised message a profile holds for a feature, if any
OverrideOf(feature, profile) ==
    CASE feature = "daily_planning" /\ "system_message_daily_planning" \in DOMAIN profile
             -> Some(profile["system_message_daily_planning"])
      [] feature = "weekly_review" /\ "system_message_weekly_review" \in DOMAIN profile
             -> Some(profile["system_message_weekly_review"])
      [] feature = "quick_task" /\ "system_message_quick_task" \in DOMAIN profile
             -> Some(profile["system_message_quick_task"])
      [] feature = "unknown_feature_xyz" /\ "system_message_unknown_feature_xyz" \in DOMAIN profile
             -> Some(profile["system_message_unknown_feature_xyz"])
      [] OTHER -> None

CatalogDefault(feature) ==
    IF feature \in DOMAIN DEFAULT_SYSTEM_MESSAGES
    THEN DEFAULT_SYSTEM_MESSAGES[feature]
    ELSE DEFAULT_SYSTEM_MESSAGES["quick_task"]

\* C11: when the profile holds a personalised system message for the feature
\* and get_ai_config returns, the system message it returns starts with that
\* text and does not start with the catalog default of the feature.
C11_OverrideLeads ==
    (/\ ret.op = "get_ai_config"
     /\ ret.result.exc = "none"
     /\ inp.user_profile # None
     /\ OverrideOf(inp.feature, inp.user_profile[1]) # None)
    => LET message == ret.result.value[1].system_message
           override == OverrideOf(inp.feature, inp.user_profile[1])[1]
       IN  /\ StartsWith(message, override)
           /\ ~StartsWith(message, CatalogDefault(inp.feature))

\* the module's own test: the mock profile's daily-planning message leads and
\* the German directive follows
C11_Witness ==
    /\ ret.op = "get_ai_config"
    /\ inp.feature = "daily_planning"
    /\ inp.user_profile = Some(mock_profile)
    /\ ret.result.exc = "none"
    /\ ret.result.value[1].system_message =
           <<"You are a coach for busy parents...", "\n\nIMPORTANT: ",
             "Antworte auf Deutsch.">>

ConfigKeys == {"model", "temperature", "max_tokens", "system_message"}

\* C12: without a profile get_ai_config returns, for every feature name in or
\* out of the catalog, a configuration of model, temperature, max_tokens and
\* system_message: a catalog model, a temperature in 0..2, a positive token
\* budget and the feature's catalog message (quick_task's when it has none).
C12_TotalWithoutProfile ==
    (ret.op = "get_ai_config" /\ inp.user_profile = None)
    => /\ ret.result.exc = "none"
       /\ DOMAIN ret.result.value[1] = ConfigKeys
       /\ ret.result.value[1].model \in {MODELS[f] : f \in DOMAIN MODELS}
       /\ ret.result.value[1].temperature \in 0..20
       /\ ret.result.value[1].max_tokens > 0
       /\ ret.result.value[1].system_message = CatalogDefault(inp.feature)

\* a name outside the catalog, and the empty name, resolved without a profile
C12_Witness ==
    /\ ret.op = "get_ai_config"
    /\ inp.user_profile = None
    /\ inp.feature \in {"unknown_feature_xyz", ""}
    /\ ret.result.exc = "none"

\* C13 as claimed: get_ai_config returns a configuration for every profile
\* value, a malformed one included.
C13_NoErrorPathForProfile ==
    ret.op = "get_ai_config"
    => /\ ret.result.exc = "none"
       /\ DOMAIN ret.result.value[1] = ConfigKeys

\* C14: whenever get_ai_config returns, its model, temperature and max_tokens
\* are those it returns for the same feature without a profile.
C14_NumbersDependOnFeatureOnly ==
    (ret.op = "get_ai_config" /\ ret.result.exc = "none")
    => LET config == ret.result.value[1]
           bare == get_ai_config(inp.feature, None).value[1]
       IN  /\ config.model = bare.model
           /\ config.temperature = bare.temperature
           /\ config.max_tokens = bare.max_tokens

\* a profile that changed the system message and left the numbers alone
C14_Witness ==
    /\ ret.op = "get_ai_config"
    /\ inp.user_profile # None
    /\ ret.result.exc = "none"
    /\ ret.result.value[1].system_message
           # get_ai_config(inp.feature, None).value[1].system_message
    /\ ret.result.value[1].max_tokens = MAX_TOKENS["weekly_review"]


\* C15: when create_messages returns, the list is one system message with
\* the system message get_ai_config gives for the feature and profile, then
\* the entries of the history as they were and in their order, then one user
\* message with the input; it has 2 + len(history) entries (2 for no or an
\* empty history), and the caller's history is as it was before the call.
C15_SystemHistoryUser ==
    (ret.op = "create_messages" /\ ret.result.exc = "none")
    => LET messages == ret.result.value[1]
           history == IF inp.conversation_history = None THEN <<>>
                      ELSE inp.conversation_history[1]
       IN  /\ Len(messages) = 2 + Len(history)
           /\ messages[1] =
                  [role |-> "system",
                   content |-> get_ai_config(inp.feature, inp.user_profile).value[1].system_message]
           /\ \A i \in 1..Len(history) : messages[i + 1] = history[i]
           /\ messages[Len(messages)] = [role |-> "user", content |-> inp.user_input]
           /\ ret.result.conversation_history = inp.conversation_history

\* a history of three turns between the system and the user message
C15_Witness ==
    /\ ret.op = "create_messages"
    /\ ret.result.exc = "none"
    /\ inp.user_profile = Some(mock_profile)
    /\ inp.conversation_history # None
    /\ Len(inp.conversation_history[1]) = 3
    /\ Len(ret.result.value[1]) = 5


GenericFocusAreas == PyList("str", <<"productivity", "balance", "growth">>)

DefaultGoalsOf(onboarding_data) == Get(onboarding_data, "goals", PyList("str", <<>>))

FirstThree(goals) ==
    [i \in 1..(IF Len(goals) < 3 THEN Len(goals) ELSE 3) |-> goals[i]]

\* what the claim lists of the default profile of these answers
DefaultProfileFields(profile, onboarding_data) ==
    /\ RequiredFields \subseteq DOMAIN profile
    /\ profile.coaching_tone = "encouraging, practical"
    /\ profile.time_block_size = 30
    /\ profile.islamic_emphasis = "medium"
    /\ profile.is_default = TRUE
    /\ profile.onboarding_data = onboarding_data
    /\ profile.language_code =
           get_language_code(Get(onboarding_data, "language", "English"))
    /\ Get(onboarding_data, "language", "English") = "Deutsch" => profile.language_code = "de"
    /\ profile.key_focus_areas =
           PyList("str", FirstThree(DefaultGoalsOf(onboarding_data).val))

NonEmptyList(goals) == isinstance_list(goals) /\ Len(goals.val) > 0

\* C16 as claimed: for answers whose goals is a non-empty list the default
\* profile is returned, has the fields the claim lists, and is the same
\* profile whatever the clock read when it was made.
C16_DefaultIsFunctionOfAnswers ==
    (ret.op = "get_default_profile" /\ NonEmptyList(DefaultGoalsOf(inp.onboarding_data)))
    => /\ ret.result.exc = "none"
       /\ DefaultProfileFields(ret.result.value[1], inp.onboarding_data)
       /\ \A now \in Clock :
              ret.result.value[1] = get_default_profile(inp.onboarding_data, now)

\* C16, amended: for answers whose goals is a non-empty list of texts the
\* default profile has the fields the claim lists and passes validation;
\* its created_at is the clock reading of the call and every other field is
\* the same whatever the clock read. For a list with a member that is not a
\* text the call raises TypeError.
C16_DefaultIsFunctionOfAnswersAndClock ==
    (ret.op = "get_default_profile" /\ NonEmptyList(DefaultGoalsOf(inp.onboarding_data)))
    => IF DefaultGoalsOf(inp.onboarding_data).elems # "str"
       THEN ret.result.exc = "TypeError"
       ELSE /\ ret.result.exc = "none"
            /\ DefaultProfileFields(ret.result.value[1], inp.onboarding_data)
            /\ ret.result.value[1].created_at = inp.now
            /\ \A now \in Clock :
                   Without(ret.result.value[1], "created_at")
                       = Without(get_default_profile(inp.onboarding_data, now), "created_at")

\* four goals chosen: the first three, in their order, and a valid profile
C16_Witness ==
    /\ ret.op = "validate_profile"
    /\ ret.value = TRUE
    /\ inp.onboarding_data = Answers("Deutsch", FourGoals)
    /\ ret.profile.language_code = "de"
    /\ ret.profile.key_focus_areas =
           PyList("str", <<"Quran memorization/study", "Career development", "Family time">>)

\* C17 as claimed: with an empty goals list, no goals, or goals that are not
\* a list, the default profile's key_focus_areas is the generic list.
C17_GenericFocusWithoutGoals ==
    (/\ ret.op = "get_default_profile"
     /\ ret.result.exc = "none"
     /\ ~NonEmptyList(DefaultGoalsOf(inp.onboarding_data)))
    => ret.result.value[1].key_focus_areas = GenericFocusAreas

\* C18: validate_profile returns true exactly for the profiles that have all
\* six required keys, whatever the values under them and whatever other keys
\* the profile has.
C18_ValidIffSixKeys ==
    ret.op = "validate_profile"
    => (ret.value <=> RequiredFields \subseteq DOMAIN inp.profile)

\* six keys with unusable values and two further keys: valid
C18_Witness ==
    /\ ret.op = "validate_profile"
    /\ ret.value = TRUE
    /\ inp.profile = UnusableValues


PlansOf(user_id) == {i \in DOMAIN plans : plans[i].user_id = user_id}

\* C19: for a limit of 0 or more get_recent_daily_plans returns as many rows
\* as the limit, or all rows of the owner if those are fewer; each is a
\* different row of that owner; their dates do not increase along the list;
\* and no row of the owner left out has a later date than a row returned.
C19_RecentByDateDescending ==
    (ret.op = "get_recent_daily_plans" /\ ret.limit >= 0)
    => LET owned == PlansOf(ret.user_id)
           count == Cardinality(owned)
           got == ret.value
           returned == {i \in owned : \E k \in DOMAIN got : got[k].id = plans[i].id}
       IN  /\ Len(got) = IF ret.limit < count THEN ret.limit ELSE count
           /\ \A k \in DOMAIN got :
                  \E i \in owned :
                      /\ got[k].id = plans[i].id
                      /\ got[k].date = plans[i].date
                      /\ got[k].plan_content = plans[i].plan_content
                      /\ got[k].created_at = plans[i].created_at
           /\ \A k, l \in DOMAIN got : k # l => got[k].id # got[l].id
           /\ \A k, l \in DOMAIN got :
                  k < l => text_rank(got[k].date) >= text_rank(got[l].date)
           /\ \A i \in owned \ returned, k \in DOMAIN got :
                  text_rank(plans[i].date) <= text_rank(got[k].date)

\* the plan of the later date was saved first and is the one returned for
\* limit 1; the plan of the earlier date is left out
C19_Witness ==
    /\ ret.op = "get_recent_daily_plans"
    /\ ret.limit = 1
    /\ Len(plans) = 2
    /\ plans[1].user_id = ret.user_id
    /\ plans[2].user_id = ret.user_id
    /\ plans[1].date = "2024-12-17"
    /\ plans[2].date = "2024-12-16"
    /\ Len(ret.value) = 1
    /\ ret.value[1].id = plans[1].id

\* C20: save_daily_plan and save_weekly_review each append one row to their
\* own table, whether or not a row of the same owner and date (or week start)
\* is there, and leave every other row of the store, the profiles and their
\* is_active flags as they were.
C20_SavesArePureInserts ==
    [][/\ ret'.op = "save_daily_plan" =>
              /\ Len(plans') = Len(plans) + 1
              /\ SubSeq(plans', 1, Len(plans)) = plans
              /\ plans'[Len(plans')].id = ret'.value
              /\ plans'[Len(plans')].user_id = ret'.user_id
              /\ plans'[Len(plans')].date = ret'.date
              /\ \A i \in DOMAIN plans : plans[i].id # ret'.value
              /\ UNCHANGED <<profiles, profile_seq, reviews, review_seq>>
       /\ ret'.op = "save_weekly_review" =>
              /\ Len(reviews') = Len(reviews) + 1
              /\ SubSeq(reviews', 1, Len(reviews)) = reviews
              /\ reviews'[Len(reviews')].id = ret'.value
              /\ reviews'[Len(reviews')].user_id = ret'.user_id
              /\ \A i \in DOMAIN reviews : reviews[i].id # ret'.value
              /\ UNCHANGED <<profiles, profile_seq, plans, plan_seq>>]_vars

\* a second plan saved for an owner and date that had one: both are stored
C20_Witness ==
    /\ ret.op = "save_daily_plan"
    /\ Len(plans) = 2
    /\ plans[1].user_id = plans[2].user_id
    /\ plans[1].date = plans[2].date
    /\ plans[2].id = ret.value


----------------------------------------------------------------------------
(* Claims on reset, identity and the session *)

\* C21: when reset_database has run, whatever ran before it, the store has
\* no profile, plan or review row and its id sequences start anew; the read
\* that follows returns no active profile, no plan, and counts of zero.
C21_ResetEmptiesStore ==
    [][/\ ret'.op = "reset_database" =>
              /\ profiles' = <<>> /\ plans' = <<>> /\ reviews' = <<>>
              /\ profile_seq' = 0 /\ plan_seq' = 0 /\ review_seq' = 0
              /\ DOMAIN metadata' = {"db_version"}
       /\ ret.op = "reset_database" =>
              /\ ret'.op = "get_active_user_profile" => ret'.value = None
              /\ ret'.op = "get_daily_plan" => ret'.value = None
              /\ ret'.op = "get_database_stats" =>
                     ret'.value = [total_profiles |-> 0, active_profiles |-> 0,
                                   total_daily_plans |-> 0, total_weekly_reviews |-> 0]]_vars

\* reset_database has just run: an empty store with new sequences
C21_Witness ==
    /\ ret.op = "reset_database"
    /\ Rows = 0
    /\ profile_seq = 0
    /\ metadata["db_version"].updated_at = MaxClock

\* the code of the LANGUAGES entry that has this name
CodeOfName(name) == CHOOSE code \in DOMAIN LANGUAGES : LANGUAGES[code].name = name

\* C23 as claimed: for every language name the onboarding form offers, the
\* profile generated from answers with that name carries the code of the
\* LANGUAGES entry of that name.
C23_FormLanguageKeepsItsCode ==
    (/\ ret.op = "generate_user_profile"
     /\ ret.result.exc = "none"
     /\ "language" \in DOMAIN inp.onboarding_data
     /\ inp.onboarding_data["language"] \in language_options)
    => ret.result.value[1].language_code = CodeOfName(inp.onboarding_data["language"])

C28_AttachedFieldsOverride ==
    (/\ ret.op = "generate_user_profile"
     /\ ret.result.exc = "none"
     /\ inp.completion.means = "object")
    => LET profile == ret.result.value[1]
           object == JsonTexts[inp.completion.json].val
       IN  /\ profile.onboarding_data = inp.onboarding_data
           /\ profile.language_code =
                  get_language_code(Get(inp.onboarding_data, "language", "English"))
           /\ profile.created_at = inp.now
           /\ DOMAIN profile = (DOMAIN object) \cup AttachedFields
           /\ \A k \in (DOMAIN object) \ AttachedFields : profile[k] = object[k]

\* the object had its own onboarding_data, language_code and created_at; the
\* profile has those of the call, and the object's is_default
C28_Witness ==
    /\ ret.op = "generate_user_profile"
    /\ ret.result.exc = "none"
    /\ inp.completion.json = "extra"
    /\ inp.completion.means = "object"
    /\ ret.result.value[1].onboarding_data = Answers("Deutsch", TwoGoals)
    /\ ret.result.value[1].language_code = "de"
    /\ ret.result.value[1].is_default = TRUE


\* C22: every plan and review the application writes has as user_id the id
\* of the profile that get_active_user_profile returns on the store of that
\* moment, and every stored plan and review belongs to a stored profile.
C22_ArtifactsKeyedByActiveProfile ==
    [][LET active == {existing[1]["db_id"] :
                          existing \in active_user_profile(profiles) \ {None}}
       IN  /\ (ret'.op = "show_daily_planning" /\ ret'.saved) =>
                  /\ Len(plans') = Len(plans) + 1
                  /\ plans'[Len(plans')].user_id \in active
           /\ (ret'.op = "show_weekly_review" /\ ret'.saved) =>
                  /\ Len(reviews') = Len(reviews) + 1
                  /\ reviews'[Len(reviews')].user_id \in active
           /\ \A i \in DOMAIN plans' :
                  \E j \in DOMAIN profiles' : profiles'[j].id = plans'[i].user_id
           /\ \A i \in DOMAIN reviews' :
                  \E j \in DOMAIN profiles' : profiles'[j].id = reviews'[i].user_id]_vars

\* a review was written for the profile of the session, after a plan
C22_Witness ==
    /\ ret.op = "show_weekly_review"
    /\ ret.saved
    /\ Len(plans) = 1
    /\ Len(reviews) = 1
    /\ reviews[1].user_id = session.user_profile[1]["db_id"]
    /\ \E i \in DOMAIN profiles :
           profiles[i].id = reviews[1].user_id /\ profiles[i].is_active = 1

\* C24 as claimed: after 'Redo Onboarding' is pressed, the next run routes
\* with onboarding_complete false and no user_profile.
C24_RedoShowsOnboarding ==
    [][(ret'.op = "show_settings" /\ ret'.button = "redo_onboarding")
       => (~session'.onboarding_complete /\ session'.user_profile = None)]_vars

\* C25 as claimed: after 'Regenerate Plan' is pressed for a date that has a
\* plan, the next run shows the generation form for that date.
C25_RegenerateShowsForm ==
    [][(ret'.op = "show_daily_planning" /\ ret'.button = "regenerate")
       => ret'.form_shown]_vars

\* C26 as claimed: the run started by the tick of the confirmation checkbox
\* executes reset_database and leaves the session not onboarded; a run
\* without the tick does not execute it.
C26_ConfirmedResetExecutes ==
    [][/\ (ret'.op = "show_settings" /\ ret'.button = "reset_confirm")
              => (ret'.reset_executed /\ ~session'.onboarding_complete /\ Rows' = 0)
       /\ (ret'.op = "show_settings" /\ ret'.button = "reset_data")
              => ~ret'.reset_executed]_vars

\* C29: whenever a run has routed with onboarding_complete true, the
\* session's user_profile is a profile with a db_id, that of a stored row.
C29_OnboardedSessionHasIdentity ==
    session.onboarding_complete
    => /\ session.user_profile # None
       /\ "db_id" \in DOMAIN session.user_profile[1]
       /\ \E i \in DOMAIN profiles : profiles[i].id = session.user_profile[1]["db_id"]

\* a new session took the profile from the store and went to the settings
C29_Witness ==
    /\ session.onboarding_complete
    /\ session.current_page = "settings"
    /\ "db_created_at" \in DOMAIN session.user_profile[1]
    /\ ret.op = "show_settings"


====
